---- MODULE Spec2Model ----
(***************************************************************************)
(* Model of src/app.py: the chart post-processing functions (norm360,     *)
(* sign_name, aspect_between, house_for, the days-to-exact estimate), the  *)
(* per-client rate limiter and the /natal and /transits request handlers.  *)
(*                                                                         *)
(* Angles are integers counted in micro-degrees (Deg units per degree):    *)
(* this is the grid on which the handlers work, because every longitude    *)
(* they pass on is round(lon, 6).  Day counts are integers in tenths of a  *)
(* day, deviations are integers in micro-degrees that are multiples of     *)
(* Centi after round(diff, 2).                                             *)
(***************************************************************************)
EXTENDS Integers, Sequences, FiniteSets, TLC

VARIABLES
    args,       \* arguments of the pure function under check
    ret,        \* its return value, NotCalled before the call
    rate,       \* _rate: client identifier -> queue of admission timestamps
    clock,      \* the value time.time() returns, in seconds
    admitted,   \* history: per client, every timestamp check_rate appended
    calls,      \* history: number of check_rate calls made so far
    last,       \* history: the last check_rate call and what it saw
    ASTRO_KEY,  \* the configured service key, "" when the env var is unset
    resp,       \* the response of the last request handled
    thr         \* per worker thread: its position inside check_rate, and in
                \* ok how its last call ended: "True", "False" or "IndexError"

vars == <<args, ret, rate, clock, admitted, calls, last, ASTRO_KEY, resp, thr>>

-----------------------------------------------------------------------------
(* Units and program constants *)

Deg == 1000000
Centi == Deg \div 100
Turn == 360 * Deg
HalfTurn == 180 * Deg

RATE_MAX == 30
RATE_WINDOW == 60
NATAL_ORB == 6 * Deg
TRANSIT_ORB == 3 * Deg

SIGNS == <<"Aries", "Taurus", "Gemini", "Cancer", "Leo", "Virgo",
           "Libra", "Scorpio", "Sagittarius", "Capricorn", "Aquarius", "Pisces">>
PLANETS == <<"Sun", "Moon", "Mercury", "Venus", "Mars", "Jupiter",
             "Saturn", "Uranus", "Neptune", "Pluto">>
ASPECTS == << <<0, "conjunction">>, <<60 * Deg, "sextile">>, <<90 * Deg, "square">>,
              <<120 * Deg, "trine">>, <<180 * Deg, "opposition">> >>

None == "None"
NotCalled == [done |-> FALSE]
Returned(v) == [done |-> TRUE, val |-> v]

-----------------------------------------------------------------------------
(* Arithmetic helpers *)

Abs(x) == IF x < 0 THEN -x ELSE x

\* Python's round(x, n) for x >= 0 on a grid of step q: to the nearest
\* multiple of q, an exact tie going to the even multiple.
RoundTo(x, q) ==
    LET r == x % q
        lo == x - r
    IN  IF 2 * r < q THEN lo
        ELSE IF 2 * r > q THEN lo + q
        ELSE IF (lo \div q) % 2 = 0 THEN lo ELSE lo + q

\* norm360: Python's % with a positive modulus is already non-negative, so
\* the second line of the function never adds anything.
norm360(d) ==
    LET m == d % Turn
    IN  IF m < 0 THEN m + Turn ELSE m

\* A longitude as the ephemeris returns it, finer than the micro-degree
\* grid: u micro-degrees and f tenths of a micro-degree.
Raw(u, f) == [u |-> u, f |-> f]

\* round(x, n) of a raw value, q being the step 10^-n in micro-degrees.
RoundRaw(x, q) ==
    LET r10 == 10 * (x.u % q) + x.f
        lo == x.u - (x.u % q)
    IN  IF 2 * r10 < 10 * q THEN lo
        ELSE IF 2 * r10 > 10 * q THEN lo + q
        ELSE IF (lo \div q) % 2 = 0 THEN lo ELSE lo + q

\* sign_name: (SIGNS[int(lon // 30) % 12], lon % 30)
sign_name(lon) ==
    <<SIGNS[((lon.u \div (30 * Deg)) % 12) + 1], Raw(lon.u % (30 * Deg), lon.f)>>

-----------------------------------------------------------------------------
(* aspect_between *)

\* A variant that normalises the signed difference and does not fold it.
SeparationSigned(a, b) == (a - b) % Turn

\* Lines 56-58: d = abs(a - b) % 360.0, folded to the shortest arc.
Separation(a, b) ==
    LET d == Abs(a - b) % Turn
    IN  IF d > HalfTurn THEN Turn - d ELSE d

\* A variant of the loop that keeps the last qualifying angle.
RECURSIVE AspectScanLast(_, _, _)
AspectScanLast(d, orb, i) ==
    IF i < 1 THEN <<None, None>>
    ELSE LET diff == Abs(d - ASPECTS[i][1])
         IN  IF diff <= orb THEN <<ASPECTS[i][2], RoundTo(diff, Centi)>>
             ELSE AspectScanLast(d, orb, i - 1)

\* Lines 59-63: the loop over ASPECTS from its i-th entry on.
RECURSIVE AspectScan(_, _, _)
AspectScan(d, orb, i) ==
    IF i > Len(ASPECTS) THEN <<None, None>>
    ELSE LET diff == Abs(d - ASPECTS[i][1])
         IN  IF diff <= orb THEN <<ASPECTS[i][2], RoundTo(diff, Centi)>>
             ELSE AspectScan(d, orb, i + 1)

aspect_between(a, b, orb) == AspectScan(Separation(a, b), orb, 1)

-----------------------------------------------------------------------------
(* house_for, the closure defined inside natal() *)

\* A variant of the span test that is open at the cusp and closed at the end.
RECURSIVE HouseScanOpenStart(_, _, _)
HouseScanOpenStart(L, c2, i) ==
    IF i > 12 THEN 12
    ELSE LET a == c2[i]
             b == c2[i + 1]
         IN  IF (a < L /\ L <= b) \/ (b < a /\ (L > a \/ L <= (b % Turn)))
             THEN i
             ELSE HouseScanOpenStart(L, c2, i + 1)

\* Lines 160-164: the loop over the 12 spans from the i-th on (i counts from
\* 1, so the value returned is the code's i + 1), then the fallback 12.
RECURSIVE HouseScan(_, _, _)
HouseScan(L, c2, i) ==
    IF i > 12 THEN 12
    ELSE LET a == c2[i]
             b == c2[i + 1]
         IN  IF (a <= L /\ L < b) \/ (b < a /\ (L >= a \/ L < (b % Turn)))
             THEN i
             ELSE HouseScan(L, c2, i + 1)

\* Lines 156-159: normalise L and the cusps, append the sentinel c[0] + 360.
house_for(L, cusps) ==
    LET Ln == norm360(L)
        c == [i \in 1..Len(cusps) |-> norm360(cusps[i])]
        c2 == Append(c, c[1] + Turn)
    IN  HouseScan(Ln, c2, 1)

-----------------------------------------------------------------------------
(* The transit hit of one (transiting, natal) pair, lines 243-255 *)

\* n / m rounded to the nearest integer, an exact tie going to the even one
\* (round(x, 1) with x counted in tenths), for n >= 0 and m > 0.
RoundDiv(n, m) ==
    LET q == n \div m
        r == n % m
    IN  IF 2 * r < m THEN q
        ELSE IF 2 * r > m THEN q + 1
        ELSE IF q % 2 = 0 THEN q ELSE q + 1

\* A variant of the estimate without the +540 offset.
approx_days_no_offset(tlon, nlon, speed) ==
    LET rel_speed == IF Abs(speed) # 0 THEN Abs(speed) ELSE 1
        delta == Abs(((tlon - nlon) % Turn) - HalfTurn)
    IN  RoundDiv(10 * delta, rel_speed * 24)

\* Lines 246-248, in tenths of a day.  speed is in micro-degrees per day, so
\* the 1e-6 that replaces a zero speed is 1.
approx_days(tlon, nlon, speed) ==
    LET rel_speed == IF Abs(speed) # 0 THEN Abs(speed) ELSE 1
        delta == Abs((((tlon - nlon) + 540 * Deg) % Turn) - HalfTurn)
    IN  RoundDiv(10 * delta, rel_speed * 24)

\* Lines 243-255: the hits one pair adds to the list, none or one.
hit_for(t, n) ==
    LET asp == aspect_between(t.lon, n.lon, TRANSIT_ORB)
    IN  IF asp[1] # None
        THEN << [transiting |-> t.name, natal |-> n.name, type |-> asp[1],
                 orb |-> asp[2],
                 approx_days_to_exact |-> approx_days(t.lon, n.lon, t.speed)] >>
        ELSE << >>

-----------------------------------------------------------------------------
(* check_rate and the shared _rate mapping *)

\* _rate[ip] on a defaultdict: a missing key reads as an empty deque.
Lookup(rt, ip) == IF ip \in DOMAIN rt THEN rt[ip] ELSE << >>

\* rt with the queue of ip replaced (or created).
Store(rt, ip, q) == [c \in DOMAIN rt \cup {ip} |-> IF c = ip THEN q ELSE rt[c]]

\* Lines 22-23: drop the head while it is more than RATE_WINDOW old.
RECURSIVE Prune(_, _)
Prune(q, now) ==
    IF q # << >> /\ now - Head(q) > RATE_WINDOW THEN Prune(Tail(q), now) ELSE q

\* A variant of the length test that lets one more request in.
check_rate_off_by_one(rt, ip, now) ==
    LET q == Prune(Lookup(rt, ip), now)
    IN  IF Len(q) > RATE_MAX
        THEN [ok |-> FALSE, rate |-> Store(rt, ip, q)]
        ELSE [ok |-> TRUE, rate |-> Store(rt, ip, Append(q, now))]

\* Lines 19-27 run without interruption: the value returned and _rate after.
check_rate(rt, ip, now) ==
    LET q == Prune(Lookup(rt, ip), now)
    IN  IF Len(q) >= RATE_MAX
        THEN [ok |-> FALSE, rate |-> Store(rt, ip, q)]
        ELSE [ok |-> TRUE, rate |-> Store(rt, ip, Append(q, now))]

-----------------------------------------------------------------------------
(* Bounds and sampled inputs *)

MaxCalls == 4       \* check_rate calls (requests) in one run
MaxRequests == 1    \* requests handled in one run
MaxFaults == 1      \* fields of a request that differ from a well-formed one
MaxConcCalls == 3   \* check_rate calls the worker threads start in one run
MaxClock == 93      \* the clock stops advancing here
GridN == 12         \* the circle is sampled at GridN evenly spaced longitudes

Clients == {"10.0.0.1", "anon"}
Threads == {"w1", "w2"}

\* The clock advances by half a window or a second more, so that timestamps
\* exactly RATE_WINDOW old and one second older both occur.
TickSteps == {RATE_WINDOW \div 2, RATE_WINDOW \div 2 + 1}

\* k admissions at clock 0.
Burst(k) == [i \in 1..k |-> 0]

\* The mappings _rate can hold after a burst of admitted calls at clock 0:
\* each client is unknown, or has RATE_MAX - 1 timestamps queued.
BurstRates ==
    UNION { [S -> {Burst(RATE_MAX - 1)}] : S \in SUBSET Clients }

NoCall == [ip |-> None, now |-> 0, ok |-> TRUE, pre |-> << >>]
NoResp == [endpoint |-> None, status |-> 0, body |-> None, steps |-> << >>]
IdleThread == [pc |-> "idle", ip |-> None, now |-> 0, ok |-> None]

LonGrid == { k * (Turn \div GridN) : k \in 0..(GridN - 1) }

\* Longitudes given to the pure functions: the grid, the values of the
\* documented examples, values next to 0/360 and values outside [0, 360).
LonSamples ==
    LonGrid \cup { 10 * Deg, 190 * Deg, 75 * Deg, 95 * Deg,
                   90 * Deg + 500000, 90 * Deg + 504000, 15 * Deg, 345 * Deg,
                   Turn - 500000, 500000, 1500000, Turn - 1,
                   -10 * Deg, 370 * Deg }

OrbSamples == { 0, TRANSIT_ORB, NATAL_ORB, 20 * Deg }

\* Daily motions in micro-degrees per day: stationary, slow, the Sun's,
\* the Moon's, and a retrograde one.
SpeedSamples == { 0, 1, 33000, Deg, 13 * Deg, -Deg }

EmptyRate == [c \in {} |-> << >>]

\* The variables a specification of one pure function leaves alone.
ServerIdle ==
    /\ rate = EmptyRate
    /\ clock = 0
    /\ admitted = EmptyRate
    /\ calls = 0
    /\ last = NoCall
    /\ ASTRO_KEY = None
    /\ resp = NoResp
    /\ thr = [t \in Threads |-> IdleThread]

ServerVars == <<rate, clock, admitted, calls, last, ASTRO_KEY, resp, thr>>

-----------------------------------------------------------------------------
(* SpecAspect: aspect_between applied to sampled arguments *)

AspectArgs == [a : LonSamples, b : LonSamples, orb : OrbSamples]

InitAspect == args \in AspectArgs /\ ret = NotCalled /\ ServerIdle

CallAspectBetween ==
    /\ ~ret.done
    /\ ret' = Returned(aspect_between(args.a, args.b, args.orb))
    /\ UNCHANGED <<args, ServerVars>>

SpecAspect == InitAspect /\ [][CallAspectBetween]_vars

\* The shortest arc between two longitudes, from the two ways round.
ShortArc(a, b) ==
    LET x == (a - b) % Turn
        y == (b - a) % Turn
    IN  IF x <= y THEN x ELSE y

\* The entries of ASPECTS within orb of the separation d.
Qualifying(d, orb) == { i \in 1..Len(ASPECTS) : Abs(d - ASPECTS[i][1]) <= orb }

FirstQualifying(d, orb) ==
    CHOOSE i \in Qualifying(d, orb) : \A j \in Qualifying(d, orb) : i <= j

\* C2 as written: the result is the first aspect of ASPECTS within orb of
\* the shortest-arc separation, together with the deviation itself, and no
\* match when no aspect is within orb.
AspectFirstMatchExactDeviation ==
    ret.done =>
        LET d == ShortArc(args.a, args.b)
        IN  IF Qualifying(d, args.orb) = {}
            THEN ret.val = <<None, None>>
            ELSE LET i == FirstQualifying(d, args.orb)
                 IN  ret.val = <<ASPECTS[i][2], Abs(d - ASPECTS[i][1])>>

\* C2 amended: the result is the first aspect of ASPECTS within orb of the
\* shortest-arc separation, together with the deviation rounded to two
\* decimal places, and no match when no aspect is within orb.
AspectFirstMatchRoundedDeviation ==
    ret.done =>
        LET d == ShortArc(args.a, args.b)
        IN  IF Qualifying(d, args.orb) = {}
            THEN ret.val = <<None, None>>
            ELSE LET i == FirstQualifying(d, args.orb)
                 IN  /\ ret.val[1] = ASPECTS[i][2]
                     /\ ret.val[2] % Centi = 0
                     /\ 2 * Abs(ret.val[2] - Abs(d - ASPECTS[i][1])) <= Centi

\* C2 witness: a separation within orb of two angles (75 degrees, orb 20)
\* was matched to the smaller one.
AspectAmbiguousWitness ==
    /\ ret.done
    /\ Cardinality(Qualifying(ShortArc(args.a, args.b), args.orb)) > 1
    /\ ret.val[1] = "sextile"

\* C9: aspect_between(a, b, orb) and aspect_between(b, a, orb) return the
\* same kind and the same deviation, or both return no match.
AspectSymmetric ==
    ret.done => ret.val = aspect_between(args.b, args.a, args.orb)

\* C9 witness: a match between two different longitudes, one of them outside
\* [0, 360).
AspectSymmetricWitness ==
    /\ ret.done
    /\ args.a < 0
    /\ args.b > args.a
    /\ ret.val[1] = "square"

-----------------------------------------------------------------------------
(* SpecHouse: house_for applied to sampled longitudes and cusp lists *)

\* House widths in degrees, each list one 360-degree turn: equal houses and
\* an uneven list with opposite houses equal, as Placidus houses are.
WidthPatterns ==
    { <<30, 30, 30, 30, 30, 30, 30, 30, 30, 30, 30, 30>>,
      <<20, 25, 35, 40, 35, 25, 20, 25, 35, 40, 35, 25>> }

RECURSIVE SumTo(_, _)
SumTo(w, n) == IF n = 0 THEN 0 ELSE w[n] + SumTo(w, n - 1)

\* The 12 cusps that start at longitude start and have the widths w.
CuspsFrom(start, w) == [i \in 1..12 |-> norm360(start + Deg * SumTo(w, i - 1))]

CuspStarts == LonGrid \cup { 20 * Deg, 100 * Deg, 355 * Deg, 1500000 }

CuspLists == { CuspsFrom(s, w) : s \in CuspStarts, w \in WidthPatterns }

Range(f) == { f[i] : i \in DOMAIN f }

\* For a cusp list: the sampled longitudes, every cusp, and the longitude
\* just before every cusp.
HouseLons(c) == LonSamples \cup Range(c) \cup { x - 1 : x \in Range(c) }

HouseArgs == UNION { { [L |-> l, cusps |-> c] : l \in HouseLons(c) } : c \in CuspLists }

InitHouse == args \in HouseArgs /\ ret = NotCalled /\ ServerIdle

CallHouseFor ==
    /\ ~ret.done
    /\ ret' = Returned(house_for(args.L, args.cusps))
    /\ UNCHANGED <<args, ServerVars>>

SpecHouse == InitHouse /\ [][CallHouseFor]_vars

\* Longitude L lies in the span [cusp i, cusp i+1) of house i, taken
\* circularly: going forward from cusp i, L comes before the next cusp.
InSpan(L, c, i) ==
    LET a == c[i]
        b == c[(i % 12) + 1]
    IN  ((L % Turn) - a) % Turn < (b - a) % Turn

\* C1: for a well-formed list of 12 cusps, house_for returns the unique
\* house in 1..12 whose span [cusp i, cusp i+1), taken circularly, contains
\* the normalised longitude.
HousePartition ==
    ret.done =>
        /\ ret.val \in 1..12
        /\ \A i \in 1..12 : InSpan(args.L, args.cusps, i) <=> (i = ret.val)

\* C1 witness: a longitude equal to the cusp of a house whose span crosses
\* 0/360 was assigned that house.
HouseWrapWitness ==
    /\ ret.done
    /\ ret.val < 12
    /\ args.L = args.cusps[ret.val]
    /\ args.cusps[ret.val + 1] < args.cusps[ret.val]

\* A longitude past 0 in the 12th house, whose span crosses 0/360, was
\* assigned house 12.
HouseLastWrapWitness ==
    /\ ret.done
    /\ ret.val = 12
    /\ args.cusps[1] < args.cusps[12]
    /\ norm360(args.L) < args.cusps[1]

-----------------------------------------------------------------------------
(* SpecTransit: the transit hit of one (transiting, natal) pair *)

NormLons == { l \in LonSamples : 0 <= l /\ l < Turn }

TransitArgs ==
    [t : [name : {"Moon"}, lon : NormLons, speed : SpeedSamples],
     n : [name : {"Sun"}, lon : NormLons, speed : {Deg}]]

InitTransit == args \in TransitArgs /\ ret = NotCalled /\ ServerIdle

CallHitFor ==
    /\ ~ret.done
    /\ ret' = Returned(hit_for(args.t, args.n))
    /\ UNCHANGED <<args, ServerVars>>

SpecTransit == InitTransit /\ [][CallHitFor]_vars

HasHit == ret.done /\ ret.val # << >>

\* C5: a hit whose deviation from the exact aspect angle is 0 has
\* approx_days_to_exact 0, whichever of the five aspects it is.
ExactHitHasZeroDays ==
    (HasHit /\ ret.val[1].orb = 0) => ret.val[1].approx_days_to_exact = 0

\* The speed the estimate divides by: |speed|, or 1e-6 for a zero speed.
RelSpeed(speed) == IF speed = 0 THEN 1 ELSE Abs(speed)

\* C6: the estimate is non-negative; it is the circular distance between the
\* two longitudes divided by 24 |speed| and rounded to a tenth, so for a fixed
\* speed it goes to 0 with that distance, also across 0/360; and it is 0 when
\* the longitudes are equal.
DaysNonNegativeAndVanishing ==
    HasHit =>
        LET days == ret.val[1].approx_days_to_exact
            m == 24 * RelSpeed(args.t.speed)
            gap == ShortArc(args.t.lon, args.n.lon)
        IN  /\ days >= 0
            /\ (args.t.lon = args.n.lon) => days = 0
            /\ Abs(days * m - 10 * gap) <= m \div 2

\* C6 witness: a conjunction across the 0/360 boundary, one degree apart,
\* at a speed of one degree a day: 1 / 24 rounds to 0.0.
DaysAcrossZeroWitness ==
    /\ HasHit
    /\ args.t.lon = Turn - 500000
    /\ args.n.lon = 500000
    /\ args.t.speed = -Deg
    /\ ret.val[1].type = "conjunction"
    /\ ret.val[1].approx_days_to_exact = 0

-----------------------------------------------------------------------------
(* SpecRate: check_rate called by one request at a time *)

PureIdle == args = None /\ ret = NotCalled

InitRate ==
    /\ PureIdle
    /\ rate \in BurstRates
    /\ admitted = rate
    /\ clock = 0
    /\ calls = 0
    /\ last = NoCall
    /\ ASTRO_KEY = None
    /\ resp = NoResp
    /\ thr = [t \in Threads |-> IdleThread]

\* time.time() returns a later value.
Tick ==
    /\ \E d \in TickSteps :
          /\ clock + d <= MaxClock
          /\ clock' = clock + d
    /\ UNCHANGED <<args, ret, rate, admitted, calls, last, ASTRO_KEY, resp, thr>>

\* The history kept with a call of check_rate: what it appended, and the
\* call itself with the mapping it found.
Record(ip, r) ==
    /\ admitted' = IF r.ok THEN Store(admitted, ip, Append(Lookup(admitted, ip), clock))
                   ELSE admitted
    /\ last' = [ip |-> ip, now |-> clock, ok |-> r.ok, pre |-> rate]
    /\ calls' = calls + 1

CallCheckRate(ip) ==
    /\ calls < MaxCalls
    /\ LET r == check_rate(rate, ip, clock)
       IN  rate' = r.rate /\ Record(ip, r)
    /\ UNCHANGED <<args, ret, clock, ASTRO_KEY, resp, thr>>

NextRate == Tick \/ \E ip \in Clients : CallCheckRate(ip)

SpecRate == InitRate /\ [][NextRate]_vars

\* q is p with some of its head dropped.
IsSuffix(q, p) == \E k \in 0..Len(p) : q = SubSeq(p, k + 1, Len(p))

\* The timestamps of client c appended so far that are at most RATE_WINDOW old
\* at time now.
Recent(c, now) ==
    { i \in 1..Len(Lookup(admitted, c)) : now - admitted[c][i] <= RATE_WINDOW }

\* C10: with calls one at a time and a non-decreasing clock, every queue
\* holds at most RATE_MAX timestamps; any RATE_MAX + 1 admissions of a client
\* span more than RATE_WINDOW; a rejected call found RATE_MAX admissions of
\* its client at most RATE_WINDOW old and appended nothing; and a call leaves
\* the queues of the other clients as they were.
RateSequentialSafe ==
    /\ \A c \in DOMAIN rate : Len(rate[c]) <= RATE_MAX
    /\ \A c \in DOMAIN admitted :
          \A i \in 1..Len(admitted[c]) :
             i + RATE_MAX <= Len(admitted[c]) =>
                admitted[c][i + RATE_MAX] - admitted[c][i] > RATE_WINDOW
    /\ last.ip # None =>
          /\ ~last.ok =>
                /\ Cardinality(Recent(last.ip, last.now)) >= RATE_MAX
                /\ IsSuffix(rate[last.ip], Lookup(last.pre, last.ip))
          /\ last.ok =>
                \E q \in { rate[last.ip] } :
                   /\ q # << >>
                   /\ q[Len(q)] = last.now
                   /\ IsSuffix(SubSeq(q, 1, Len(q) - 1), Lookup(last.pre, last.ip))
          /\ \A c \in (DOMAIN rate \cup DOMAIN last.pre) \ {last.ip} :
                c \in DOMAIN rate /\ c \in DOMAIN last.pre /\ rate[c] = last.pre[c]

\* C10 witness: a client at its quota was rejected while another client's
\* queue was there, and was admitted again once its burst was too old.
RateRejectedWitness ==
    /\ last.ip # None
    /\ ~last.ok
    /\ Len(rate[last.ip]) = RATE_MAX
    /\ last.now = RATE_WINDOW
    /\ \E c \in DOMAIN rate : c # last.ip /\ rate[c] # << >>

-----------------------------------------------------------------------------
(* SpecConc: check_rate run by two worker threads, a statement at a time *)

SetThread(t, pc, ip, now, ok) ==
    thr' = [thr EXCEPT ![t] = [pc |-> pc, ip |-> ip, now |-> now, ok |-> ok]]

\* Lines 20-21: q = _rate[ip] creates the queue of an unknown client.
Enter(t, ip) ==
    /\ thr[t].pc = "idle"
    /\ calls < MaxConcCalls
    /\ calls' = calls + 1
    /\ rate' = Store(rate, ip, Lookup(rate, ip))
    /\ SetThread(t, "while", ip, clock, None)
    /\ UNCHANGED <<args, ret, clock, admitted, last, ASTRO_KEY, resp>>

\* Line 22: the loop condition.
WhileTest(t) ==
    /\ thr[t].pc = "while"
    /\ LET q == rate[thr[t].ip]
       IN  IF q # << >> /\ thr[t].now - Head(q) > RATE_WINDOW
           THEN SetThread(t, "popleft", thr[t].ip, thr[t].now, None)
           ELSE SetThread(t, "len", thr[t].ip, thr[t].now, None)
    /\ UNCHANGED <<args, ret, rate, clock, admitted, calls, last, ASTRO_KEY, resp>>

\* Line 23: q.popleft(), which raises IndexError on a deque another thread
\* has emptied since the loop condition; the request then fails.
PopLeft(t) ==
    /\ thr[t].pc = "popleft"
    /\ LET q == rate[thr[t].ip]
       IN  IF q = << >>
           THEN /\ SetThread(t, "idle", thr[t].ip, thr[t].now, "IndexError")
                /\ UNCHANGED rate
           ELSE /\ rate' = [rate EXCEPT ![thr[t].ip] = Tail(q)]
                /\ SetThread(t, "while", thr[t].ip, thr[t].now, None)
    /\ UNCHANGED <<args, ret, clock, admitted, calls, last, ASTRO_KEY, resp>>

\* Lines 24-25: the length test, and the return of False.
LenTest(t) ==
    /\ thr[t].pc = "len"
    /\ IF Len(rate[thr[t].ip]) >= RATE_MAX
       THEN SetThread(t, "idle", thr[t].ip, thr[t].now, "False")
       ELSE SetThread(t, "append", thr[t].ip, thr[t].now, None)
    /\ UNCHANGED <<args, ret, rate, clock, admitted, calls, last, ASTRO_KEY, resp>>

\* Lines 26-27: q.append(now), and the return of True.
AppendNow(t) ==
    /\ thr[t].pc = "append"
    /\ rate' = [rate EXCEPT ![thr[t].ip] = Append(@, thr[t].now)]
    /\ admitted' = Store(admitted, thr[t].ip, Append(Lookup(admitted, thr[t].ip), thr[t].now))
    /\ SetThread(t, "idle", thr[t].ip, thr[t].now, "True")
    /\ UNCHANGED <<args, ret, clock, calls, last, ASTRO_KEY, resp>>

NextConc ==
    \/ Tick
    \/ \E t \in Threads :
          \/ \E ip \in Clients : Enter(t, ip)
          \/ WhileTest(t)
          \/ PopLeft(t)
          \/ LenTest(t)
          \/ AppendNow(t)

SpecConc == InitRate /\ [][NextConc]_vars

\* C7: under every interleaving of concurrent check_rate calls, a client's
\* queue never holds more than RATE_MAX timestamps.
ConcQueueBounded == \A c \in DOMAIN rate : Len(rate[c]) <= RATE_MAX

-----------------------------------------------------------------------------
(* The collaborators of the handlers *)

\* require_key, lines 29-32; hdr is the X-Astro-Key header of the request.
require_key(key, hdr) == IF key = None \/ key = "" THEN TRUE ELSE hdr = key

\* str.strip() on the timezone names that occur.
Strip(x) == IF x = " UTC " THEN "UTC" ELSE x

Falsy(x) == x = None \/ x = ""

\* x or y
Or(x, y) == IF Falsy(x) THEN y ELSE x

ValidDates == {"2020-01-15", "2024-03-01", "today"}
ValidTimes == {"12:30", "06:00", "nowtime"}
KnownZones == {"UTC"}

\* local_to_ut raises on a date or time that does not parse and on a
\* timezone name pytz does not know (lines 75-78).
ConversionRaises(date, time_s, tz_name) ==
    ~(date \in ValidDates /\ time_s \in ValidTimes /\ tz_name \in KnownZones)

\* The Julian Day local_to_ut returns, as the number of the moment.
JulDay(date, time_s, tz_name) ==
    (CASE date = "2020-01-15" -> 0 [] date = "2024-03-01" -> 2 [] OTHER -> 4)
    + (IF time_s = "12:30" THEN 0 ELSE 1)

\* geocode, lines 65-72: the places Nominatim resolves.
NotFound == << >>
geocode(city, country) ==
    IF city = "Paris" THEN <<"48.8566", "2.3522">> ELSE NotFound

\* Daily motions of the ten bodies, micro-degrees per day; Pluto stationary.
Motion == <<985600, 13176000, -500000, 1200000, 524000, 83000, 33000, 11000, 6000, 0>>

\* swe.calc_ut as an oracle: the longitude and speed of body k at moment jd
\* under ephemeris e.  The last body sits just below 360 degrees.
EphLon(e, jd, k) ==
    IF k = 10 THEN Raw(Turn - 1, 6)
    ELSE Raw((e + k * 37 * Deg + jd * Motion[k]) % Turn, (k + jd) % 10)

\* swe.houses as an oracle: 12 well-formed Placidus cusps.
houses_placidus(e, jd, lat, lon) ==
    CuspsFrom((e + 100 * Deg + jd * 41 * Deg) % Turn,
              IF jd % 2 = 0 THEN <<30, 30, 30, 30, 30, 30, 30, 30, 30, 30, 30, 30>>
              ELSE <<20, 25, 35, 40, 35, 25, 20, 25, 35, 40, 35, 25>>)

\* Lines 92-100: the record of body k.
planet_record(k, lon, sn) ==
    [name |-> PLANETS[k],
     lon |-> RoundRaw(Raw(norm360(lon.u), lon.f), 1),
     sign |-> sn[1],
     deg_in_sign |-> RoundRaw(sn[2], Centi),
     speed |-> Motion[k]]

\* Lines 91-100: the loop over PLANETS from the k-th body on.
RECURSIVE planet_loop(_, _, _)
planet_loop(e, jd, k) ==
    IF k > Len(PLANETS) THEN << >>
    ELSE <<planet_record(k, EphLon(e, jd, k), sign_name(EphLon(e, jd, k)))>>
         \o planet_loop(e, jd, k + 1)

\* planet_positions, lines 88-101.
planet_positions(e, jd) == planet_loop(e, jd, 1)

\* natal_payload, lines 103-126: (basis, None) as ok with basis, (None, err)
\* as not ok with err, and the collaborator calls made.
natal_payload(p, require_geo) ==
    LET tz_name == Strip(Or(p.timezone, ""))
        need_geo == (p.lat = None \/ p.lon = None) /\ require_geo
        gc == geocode(p.city, p.country)
        geo_steps == IF need_geo THEN <<"geocode">> ELSE << >>
        lat == IF need_geo THEN gc[1] ELSE p.lat
        lon == IF need_geo THEN gc[2] ELSE p.lon
    IN  IF Falsy(p.date) \/ Falsy(p.time) \/ Falsy(tz_name)
        THEN [ok |-> FALSE, err |-> [error |-> "date, time, and timezone are required"],
              steps |-> << >>]
        ELSE IF need_geo /\ gc = NotFound
        THEN [ok |-> FALSE, err |-> [error |-> "Could not geocode city/country"],
              steps |-> geo_steps]
        ELSE IF ConversionRaises(p.date, p.time, tz_name)
        THEN [ok |-> FALSE, err |-> [error |-> "Time conversion failed"],
              steps |-> geo_steps \o <<"local_to_ut:raised">>]
        ELSE [ok |-> TRUE,
              basis |-> [lat |-> lat, lon |-> lon, tz |-> tz_name,
                         jd_ut |-> JulDay(p.date, p.time, tz_name)],
              steps |-> geo_steps \o <<"local_to_ut">>]

-----------------------------------------------------------------------------
(* The request handlers *)

\* A response: the route, the HTTP status, the JSON body and, as history,
\* the calls the handler made in order.
Response(endpoint, status, body, steps) ==
    [endpoint |-> endpoint, status |-> status, body |-> body, steps |-> steps]

\* What Flask answers when the view function raises.
InternalServerError == "Internal Server Error"

\* Line 167: pl["house"] = house_for(pl["lon"], cusps).
with_house(pl, house) ==
    [name |-> pl.name, lon |-> pl.lon, sign |-> pl.sign,
     deg_in_sign |-> pl.deg_in_sign, speed |-> pl.speed, house |-> house]

\* Lines 166-167: every planet from the k-th on gets the house of its longitude.
RECURSIVE assign_houses(_, _, _)
assign_houses(planets, cusps, k) ==
    IF k > Len(planets) THEN << >>
    ELSE <<with_house(planets[k], house_for(planets[k].lon, cusps))>>
         \o assign_houses(planets, cusps, k + 1)

\* Lines 173-175: the aspects the pair (i, j) adds, none or one.
aspect_entry(pi, pj, asp) ==
    IF asp[1] # None
    THEN << [a |-> pi.name, b |-> pj.name, type |-> asp[1], orb |-> asp[2]] >>
    ELSE << >>

\* Lines 172-175: the inner loop, the pairs (i, j), (i, j+1), ...
RECURSIVE aspects_row(_, _, _)
aspects_row(planets, i, j) ==
    IF j > Len(planets) THEN << >>
    ELSE aspect_entry(planets[i], planets[j],
                      aspect_between(planets[i].lon, planets[j].lon, NATAL_ORB))
         \o aspects_row(planets, i, j + 1)

\* Lines 171-175: the outer loop from row i on.
RECURSIVE natal_aspects(_, _)
natal_aspects(planets, i) ==
    IF i > Len(planets) THEN << >>
    ELSE aspects_row(planets, i, i + 1) \o natal_aspects(planets, i + 1)

\* Lines 179-185: the record of cusp i.
house_record(i, cusp, sn) ==
    [num |-> i, lon |-> RoundRaw(Raw(norm360(cusp), 0), 1),
     sign |-> sn[1], deg_in_sign |-> RoundRaw(sn[2], Centi)]

\* Lines 177-185: the loop over the cusps from the i-th on.
RECURSIVE houses_out(_, _)
houses_out(cusps, i) ==
    IF i > Len(cusps) THEN << >>
    ELSE <<house_record(i, cusps[i], sign_name(Raw(cusps[i], 0)))>>
         \o houses_out(cusps, i + 1)

\* Lines 242-255: the inner loop, transiting body t against the natal bodies
\* from the j-th on.
RECURSIVE hits_row(_, _, _)
hits_row(t, natal_planets, j) ==
    IF j > Len(natal_planets) THEN << >>
    ELSE hit_for(t, natal_planets[j]) \o hits_row(t, natal_planets, j + 1)

\* Lines 240-255: the outer loop from the i-th transiting body on.
RECURSIVE transit_hits(_, _, _)
transit_hits(t_planets, natal_planets, i) ==
    IF i > Len(t_planets) THEN << >>
    ELSE hits_row(t_planets[i], natal_planets, 1)
         \o transit_hits(t_planets, natal_planets, i + 1)

\* Lines 187-197: the chart response.
natal_response(basis, cusps, planets, steps) ==
    [status |-> 200,
     body |-> [resolved |-> [lat |-> basis.lat, lon |-> basis.lon,
                             timezone |-> basis.tz, jd_ut |-> basis.jd_ut],
               ascendant |-> RoundRaw(Raw(norm360(cusps[1]), 0), 1),
               mc |-> RoundRaw(Raw(norm360(cusps[10]), 0), 1),
               planets |-> planets,
               houses |-> houses_out(cusps, 1),
               aspects |-> natal_aspects(planets, 1)],
     steps |-> steps]

\* Lines 149-197: the chart of a resolved basis.
natal_chart(e, basis, cusps, steps) ==
    natal_response(basis, cusps,
                   assign_houses(planet_positions(e, basis.jd_ut), cusps, 1),
                   steps \o <<"swe.houses", "swe.calc_ut">>)

\* Lines 145-197: what follows natal_payload, whose outcome is np.
natal_after_payload(e, np) ==
    IF ~np.ok
    THEN [status |-> 400, body |-> np.err, steps |-> <<"get_json">> \o np.steps]
    ELSE natal_chart(e, np.basis,
                     houses_placidus(e, np.basis.jd_ut, np.basis.lat, np.basis.lon),
                     <<"get_json">> \o np.steps)

\* Lines 140-197 of natal(): what follows the two gates.
natal_core(req, e) ==
    IF ~req.json_ok
    THEN [status |-> 400, body |-> [error |-> "Invalid JSON"],
          steps |-> <<"get_json:raised">>]
    ELSE natal_after_payload(e, natal_payload(req.p, TRUE))

\* Lines 257-262: the comparison response.
transits_response(tz_name, jd_ut, t_planets, natal_planets, steps) ==
    [status |-> 200,
     body |-> [resolved |-> [timezone |-> tz_name, jd_ut |-> jd_ut],
               transiting_planets |-> t_planets,
               natal_planets |-> natal_planets,
               hits |-> transit_hits(t_planets, natal_planets, 1)],
     steps |-> steps]

\* Lines 230-262: the two conversions, neither one guarded, and the rest.
transits_convert(e, p, date, time_s, tz_name, before) ==
    IF ConversionRaises(date, time_s, tz_name)
    THEN [status |-> 500, body |-> InternalServerError,
          steps |-> before \o <<"local_to_ut:raised">>]
    ELSE IF ConversionRaises(p.date, p.time, p.timezone)
    THEN [status |-> 500, body |-> InternalServerError,
          steps |-> before \o <<"local_to_ut", "local_to_ut:raised">>]
    ELSE transits_response(tz_name, JulDay(date, time_s, tz_name),
                           planet_positions(e, JulDay(date, time_s, tz_name)),
                           planet_positions(e, JulDay(p.date, p.time, p.timezone)),
                           before \o <<"local_to_ut", "local_to_ut",
                                       "swe.calc_ut", "swe.calc_ut">>)

\* Lines 218-228: the transit moment, from now or from the t_ fields.
transits_moment(e, p, tz_name, before) ==
    IF p.now
    THEN transits_convert(e, p, "today", "nowtime", tz_name, before)
    ELSE IF Falsy(Or(p.t_date, p.date)) \/ Falsy(Or(p.t_time, p.time))
            \/ Falsy(Or(p.t_timezone, tz_name))
    THEN [status |-> 400,
          body |-> [error |-> "t_date/time & t_timezone (or now:true) required"],
          steps |-> before]
    ELSE transits_convert(e, p, Or(p.t_date, p.date), Or(p.t_time, p.time),
                          Or(p.t_timezone, tz_name), before)

\* Lines 212-262: what follows natal_payload, whose outcome is np.
transits_after_payload(e, p, np) ==
    IF ~np.ok
    THEN [status |-> 400, body |-> np.err, steps |-> <<"get_json">> \o np.steps]
    ELSE transits_moment(e, p, np.basis.tz, <<"get_json">> \o np.steps)

\* Lines 206-262 of transits(): what follows the two gates.
transits_core(req, e) ==
    IF ~req.json_ok
    THEN [status |-> 400, body |-> [error |-> "Invalid JSON"],
          steps |-> <<"get_json:raised">>]
    ELSE transits_after_payload(e, req.p, natal_payload(req.p, TRUE))

\* request.remote_addr or "anon"
ClientOf(req) == IF req.remote_addr = None THEN "anon" ELSE req.remote_addr

\* A variant of the gates that reads the body before it checks the key.
Gated_key_late(req, rt, now, key, core) ==
    LET r == check_rate(rt, ClientOf(req), now)
    IN  IF ~r.ok
        THEN [status |-> 429, body |-> [error |-> "rate limit"],
              steps |-> <<"check_rate:False">>, rate |-> r]
        ELSE IF core.status = 400 /\ core.steps = <<"get_json:raised">>
        THEN [status |-> 400, body |-> core.body,
              steps |-> <<"check_rate:True">> \o core.steps, rate |-> r]
        ELSE IF ~require_key(key, req.key)
        THEN [status |-> 401, body |-> [error |-> "unauthorized"],
              steps |-> <<"check_rate:True", "get_json", "require_key:False">>, rate |-> r]
        ELSE [status |-> core.status, body |-> core.body,
              steps |-> <<"check_rate:True", "require_key:True">> \o core.steps,
              rate |-> r]

\* Lines 135-139 and 201-205: the rate gate, the key gate, then the rest of
\* the handler, whose outcome is core.
Gated(req, rt, now, key, core) ==
    LET r == check_rate(rt, ClientOf(req), now)
    IN  IF ~r.ok
        THEN [status |-> 429, body |-> [error |-> "rate limit"],
              steps |-> <<"check_rate:False">>, rate |-> r]
        ELSE IF ~require_key(key, req.key)
        THEN [status |-> 401, body |-> [error |-> "unauthorized"],
              steps |-> <<"check_rate:True", "require_key:False">>, rate |-> r]
        ELSE [status |-> core.status, body |-> core.body,
              steps |-> <<"check_rate:True", "require_key:True">> \o core.steps,
              rate |-> r]

\* natal(), lines 133-197.
natal(req, rt, now, key, e) == Gated(req, rt, now, key, natal_core(req, e))

\* transits(), lines 199-262.
transits(req, rt, now, key, e) == Gated(req, rt, now, key, transits_core(req, e))

-----------------------------------------------------------------------------
(* Spec: the server handling one request after another *)

\* A well-formed /transits request that names its place; /natal ignores now
\* and the t_ fields.
GoodRequest ==
    [remote_addr |-> "10.0.0.1", key |-> "secret", json_ok |-> TRUE,
     p |-> [date |-> "2020-01-15", time |-> "12:30", timezone |-> "UTC",
            city |-> "Paris", country |-> "France", lat |-> None, lon |-> None,
            now |-> FALSE, t_date |-> "2024-03-01", t_time |-> "06:00",
            t_timezone |-> "UTC"]]

\* The other values a field of the payload takes: dates and times that do
\* not parse, a timezone name with blanks around it, an unknown one, a place
\* Nominatim does not find, coordinates given, and fields left out.
PayloadFaults ==
    { <<"date", "2020-13-45">>, <<"date", None>>,
      <<"time", "25:00">>, <<"time", None>>,
      <<"timezone", " UTC ">>, <<"timezone", "Mars/Olympus">>, <<"timezone", None>>,
      <<"city", "Atlantis">>, <<"lat", "48.8566">>, <<"lon", "2.3522">>,
      <<"now", TRUE>>,
      <<"t_date", "2024-02-30">>, <<"t_date", None>>, <<"t_time", None>>,
      <<"t_timezone", "Mars/Olympus">>, <<"t_timezone", None>> }

\* The other values of the request outside its payload: no peer address, a
\* wrong or missing key header, a body that is not JSON.
EnvelopeFaults ==
    { <<"remote_addr", None>>, <<"key", "wrong">>, <<"key", None>>,
      <<"json_ok", FALSE>> }

\* The requests one field away from a request of R.
OneFieldAway(R) ==
    { [r EXCEPT !.p = [@ EXCEPT ![x[1]] = x[2]]] : r \in R, x \in PayloadFaults }
    \cup { [r EXCEPT ![x[1]] = x[2]] : r \in R, x \in EnvelopeFaults }

RECURSIVE Within(_, _)
Within(R, n) == IF n = 0 THEN R ELSE Within(R \cup OneFieldAway(R), n - 1)

\* The requests that differ from GoodRequest in at most MaxFaults fields.
Requests == Within({GoodRequest}, MaxFaults)

\* The ephemerides the oracle may be: offsets of all longitudes.
Ephemerides == { 0, 123456789 }

\* The mappings _rate holds when the first request of a run arrives: no
\* client known, or one client one admission short of its quota, or at it.
ServedRates ==
    { EmptyRate } \cup { [c \in {"10.0.0.1"} |-> Burst(k)] : k \in {RATE_MAX - 1, RATE_MAX} }

Init ==
    /\ PureIdle
    /\ rate \in ServedRates
    /\ admitted = rate
    /\ clock = 0
    /\ calls = 0
    /\ last = NoCall
    /\ ASTRO_KEY \in {None, "secret"}
    /\ resp = NoResp
    /\ thr = [t \in Threads |-> IdleThread]

\* One request handled from its arrival to its response.
Serve(endpoint, req, out) ==
    /\ rate' = out.rate.rate
    /\ Record(ClientOf(req), out.rate)
    /\ resp' = Response(endpoint, out.status, out.body, out.steps)
    /\ UNCHANGED <<args, ret, clock, ASTRO_KEY, thr>>

Natal ==
    /\ calls < MaxRequests
    /\ \E req \in Requests, e \in Ephemerides :
          Serve("/natal", req, natal(req, rate, clock, ASTRO_KEY, e))

Transits ==
    /\ calls < MaxRequests
    /\ \E req \in Requests, e \in Ephemerides :
          Serve("/transits", req, transits(req, rate, clock, ASTRO_KEY, e))

\* health(), lines 129-131: no gate, no state.
Health ==
    /\ resp' = Response("/health", 200, [ok |-> TRUE], << >>)
    /\ UNCHANGED <<args, ret, rate, clock, admitted, calls, last, ASTRO_KEY, thr>>

Next == Natal \/ Transits \/ Health

Spec == Init /\ [][Next]_vars

-----------------------------------------------------------------------------
(* Properties of the responses *)

Gated_endpoint == resp.endpoint \in {"/natal", "/transits"}

\* The calls that belong to the computation behind the gates.
CoreSteps ==
    {"get_json", "get_json:raised", "geocode", "local_to_ut", "local_to_ut:raised",
     "swe.houses", "swe.calc_ut"}

HasCoreStep == \E i \in 1..Len(resp.steps) : resp.steps[i] \in CoreSteps

\* C8: a request to /natal or /transits meets the rate gate first and the
\* key gate second; a request answered 429 or 401 has had no JSON parsing,
\* geocoding, time conversion or ephemeris call; and any such call comes
\* only after both gates have passed.  The 429 is the limiter's refusal.
GatesBeforeCore ==
    Gated_endpoint =>
        /\ resp.steps # << >>
        /\ resp.steps[1] \in {"check_rate:True", "check_rate:False"}
        /\ (resp.status = 429) <=> ~last.ok
        /\ (resp.status = 429) <=> (resp.steps = <<"check_rate:False">>)
        /\ (resp.status = 401) <=>
              (resp.steps = <<"check_rate:True", "require_key:False">>)
        /\ resp.status \in {429, 401} => ~HasCoreStep
        /\ \A i \in 1..Len(resp.steps) :
              resp.steps[i] \in CoreSteps =>
                 /\ i > 2
                 /\ resp.steps[1] = "check_rate:True"
                 /\ resp.steps[2] = "require_key:True"
        /\ resp.status = 200 => HasCoreStep

\* C8 witness: a request with a wrong key was let through by the limiter and
\* answered 401 with nothing computed.
UnauthorizedWitness ==
    /\ Gated_endpoint
    /\ resp.status = 401
    /\ last.ok
    /\ ~HasCoreStep

\* A request over its quota was answered 429 with nothing computed.
RateLimitedWitness ==
    /\ Gated_endpoint
    /\ resp.status = 429
    /\ ~HasCoreStep

\* C3: a request in which a date/time/timezone conversion failed ends with
\* HTTP 400 and the 'Time conversion failed' error, for the natal moment and
\* for the transit moment alike.
ConversionFailureReported ==
    (Gated_endpoint /\ \E i \in 1..Len(resp.steps) : resp.steps[i] = "local_to_ut:raised")
        => /\ resp.status = 400
           /\ resp.body = [error |-> "Time conversion failed"]

\* A planet record that carries a house number in 1..12.
CarriesHouse(pl) == "house" \in DOMAIN pl /\ pl.house \in 1..12

AllCarryHouse(planets) == \A k \in 1..Len(planets) : CarriesHouse(planets[k])

\* C4: every planet record of every planet list of a successful response
\* carries a house number in 1..12.
PlanetsCarryHouse ==
    /\ (resp.endpoint = "/natal" /\ resp.status = 200) =>
          AllCarryHouse(resp.body.planets)
    /\ (resp.endpoint = "/transits" /\ resp.status = 200) =>
          /\ AllCarryHouse(resp.body.transiting_planets)
          /\ AllCarryHouse(resp.body.natal_planets)

\* The /natal half of C4, which the code does meet.
NatalPlanetsCarryHouse ==
    (resp.endpoint = "/natal" /\ resp.status = 200) =>
        /\ Len(resp.body.planets) = Len(PLANETS)
        /\ AllCarryHouse(resp.body.planets)

\* A worker thread's popleft found the deque emptied by the other thread.
PopFromEmptyWitness == \E t \in Threads : thr[t].ok = "IndexError"

====
